---- MODULE Spec2Model ----
(***************************************************************************)
(* The create-workspace function of appwrite-go-sdk-tutorial               *)
(* (functions/create-workspace/main.go with shared/middleware and          *)
(* shared/models), run against the Appwrite platform it calls.             *)
(*                                                                         *)
(* Strings are sequences of characters.  A character is written as a       *)
(* one-letter string, or as "U+XXXX" for the code points that have no      *)
(* printable form or take more than one byte in UTF-8.                     *)
(***************************************************************************)
EXTENDS Integers, Sequences, FiniteSets, TLC

\* ------------------------------------------------------------- bounds
\* Number of invocations of the function that may run against the platform.
NumInvocations == 2
\* Longest input string handed to generateSlug on its own.
MaxSlugInput == 4

\* Longest short input string handed to SanitizeString on its own.
MaxSanitizeInput == 3
\* Most teams the project holds when GetUserTeams is run on its own.
MaxListedTeams == 2

\* ---------------------------------------------------------- characters
NUL == "U+0000"
SOH == "U+0001"
TAB == "U+0009"
LF == "U+000A"
SP == " "
NBSP == "U+00A0"
UpperEAcute == "U+00C9"
LowerEAcute == "U+00E9"

LowerLetters ==
  <<"a", "b", "c", "d", "e", "f", "g", "h", "i", "j", "k", "l", "m",
    "n", "o", "p", "q", "r", "s", "t", "u", "v", "w", "x", "y", "z">>
UpperLetters ==
  <<"A", "B", "C", "D", "E", "F", "G", "H", "I", "J", "K", "L", "M",
    "N", "O", "P", "Q", "R", "S", "T", "U", "V", "W", "X", "Y", "Z">>
LowerChars == {LowerLetters[k] : k \in 1..26}
UpperChars == {UpperLetters[k] : k \in 1..26}
DigitChars == {"0", "1", "2", "3", "4", "5", "6", "7", "8", "9"}

\* Bytes of the character's UTF-8 encoding (Go's len counts bytes).
ByteLen(c) == IF c \in {NBSP, UpperEAcute, LowerEAcute} THEN 2 ELSE 1

\* unicode.IsSpace, as strings.TrimSpace uses it.
UnicodeSpace == {TAB, LF, SP, NBSP}
\* The class \s of Go's regexp package: [\t\n\f\r ].
RegexSpace == {TAB, LF, SP}

\* len(s): the bytes of the two halves of s added up.
RECURSIVE ByteLength(_)
ByteLength(s) ==
  IF s = <<>> THEN 0
  ELSE IF Len(s) = 1 THEN ByteLen(s[1])
  ELSE ByteLength(SubSeq(s, 1, Len(s) \div 2))
         + ByteLength(SubSeq(s, Len(s) \div 2 + 1, Len(s)))

Repeat(c, n) == [k \in 1..n |-> c]

RECURSIVE TrimLeft(_, _)
TrimLeft(s, cutset) ==
  IF s # <<>> /\ Head(s) \in cutset THEN TrimLeft(Tail(s), cutset) ELSE s

RECURSIVE TrimRight(_, _)
TrimRight(s, cutset) ==
  IF s # <<>> /\ s[Len(s)] \in cutset
    THEN TrimRight(SubSeq(s, 1, Len(s) - 1), cutset)
    ELSE s

\* strings.Trim(s, cutset)
Trim(s, cutset) == TrimRight(TrimLeft(s, cutset), cutset)

\* strings.TrimSpace(s)
TrimSpace(s) == Trim(s, UnicodeSpace)

\* strings.ReplaceAll(s, old, "") for a one-character old
RemoveAll(s, old) == SelectSeq(s, LAMBDA c : c # old)

\* unicode.ToLower on one character
ToLowerChar(c) ==
  IF c \in UpperChars
    THEN LowerLetters[CHOOSE k \in 1..26 : UpperLetters[k] = c]
  ELSE IF c = UpperEAcute THEN LowerEAcute
  ELSE c

\* strings.ToLower(s)
ToLower(s) == [k \in 1..Len(s) |-> ToLowerChar(s[k])]

\* ------------------------------------------------------- generateSlug
\* The class [a-z0-9] of the slug pattern.
SlugClass == LowerChars \cup DigitChars

RECURSIVE SkipRun(_)
SkipRun(s) ==
  IF s # <<>> /\ Head(s) \notin SlugClass THEN SkipRun(Tail(s)) ELSE s

\* The pattern without its +: every character outside the class gets a
\* hyphen of its own.
RECURSIVE ReplaceEachNonAlnum(_)
ReplaceEachNonAlnum(s) ==
  IF s = <<>> THEN <<>>
  ELSE IF Head(s) \in SlugClass
    THEN <<Head(s)>> \o ReplaceEachNonAlnum(Tail(s))
    ELSE <<"-">> \o ReplaceEachNonAlnum(Tail(s))

\* regexp.MustCompile(`[^a-z0-9]+`).ReplaceAllString(s, "-"): leftmost
\* matches, each as long as possible, so each maximal run becomes one hyphen.
RECURSIVE ReplaceAllNonAlnum(_)
ReplaceAllNonAlnum(s) ==
  IF s = <<>> THEN <<>>
  ELSE IF Head(s) \in SlugClass
    THEN <<Head(s)>> \o ReplaceAllNonAlnum(Tail(s))
    ELSE <<"-">> \o ReplaceAllNonAlnum(SkipRun(Tail(s)))

generateSlug(name) == Trim(ReplaceAllNonAlnum(ToLower(name)), {"-"})

\* ------------------------------------------------- program constants
\* len(workspaceName) < 3 || len(workspaceName) > 50
MinNameLen == 3
MaxNameLen == 50
\* if len(input) > 1000 { input = input[:1000] }
MaxSanitizedLen == 1000

\* ------------------------------------------------------------ Go values
\* A Go error: nil, or a message made of its parts (fmt.Errorf with %w puts
\* the wrapped error's text after the prefix).
NilError == [isErr |-> FALSE, msg |-> <<>>]
Errorf(parts) == [isErr |-> TRUE, msg |-> parts]

\* m[k] on a Go map[string]string: the zero value "" for a missing key.
Lookup(m, k) == IF k \in DOMAIN m THEN m[k] ELSE ""

\* ------------------------------------------------------- the platform
\* What the Appwrite project the function is deployed in answers to.
Endpoint == "https://cloud.appwrite.io/v1"
ProjectId == "project"
ApiKey == "server-api-key"
DatabaseId == "database"
CollectionId == "workspaces-collection"
\* The plan attribute's enum of the workspaces collection.
PlanEnum == {"free", "pro", "enterprise"}
\* The one session the account service knows, and the user it belongs to.
ValidSession == "session-of-u1"
UserOf(session) == [Id |-> "u1", Email |-> "u1@example.com", Name |-> "User One"]
\* The details an SDK call's error may carry.
ErrorDetails == {"detail-1", "detail-2"}

\* A configured SDK client reaches the project when endpoint and project are
\* the project's, and acts as admin with the server API key.
Reaches(client) == client.Endpoint = Endpoint /\ client.Project = ProjectId
IsAdmin(client) == Reaches(client) /\ client.Key = ApiKey

\* --------------------------------------------- shared/models (part_002)
\* NewErrorResponse
NewErrorResponse(code, message, field) ==
  [Success |-> FALSE,
   Error |-> [Code |-> code, Message |-> message, Field |-> field]]

\* APIError marshalled with no omitempty on Field.
MarshalAPIErrorNoOmit(e) ==
  [code |-> e.Code, message |-> e.Message, field |-> e.Field]

\* json.Marshal of an APIError: Field is tagged omitempty.
MarshalAPIError(e) ==
  IF e.Field = ""
    THEN [code |-> e.Code, message |-> e.Message]
    ELSE [code |-> e.Code, message |-> e.Message, field |-> e.Field]

\* json.Marshal of an ErrorResponse
MarshalErrorResponse(r) ==
  [success |-> r.Success, error |-> MarshalAPIError(r.Error)]

\* json.Marshal of a Workspace
MarshalWorkspace(w) ==
  [id |-> w.ID, name |-> w.Name, slug |-> w.Slug, teamId |-> w.TeamID,
   ownerId |-> w.OwnerID, createdAt |-> w.CreatedAt, status |-> w.Status,
   plan |-> w.Plan, tenantId |-> w.TenantID]

\* json.Marshal of a successful WorkspaceResponse: Error is "" and tagged
\* omitempty; omitempty does not drop a struct, so workspace is always there.
MarshalWorkspaceResponse(r) ==
  [success |-> r.Success, workspace |-> MarshalWorkspace(r.Workspace),
   message |-> r.Message]

\* ------------------------------------------------ shared/middleware
\* The trigger check testing only that the header is there.
VerifyTriggerPresence(headers) ==
  IF "x-appwrite-trigger" \notin DOMAIN headers
    THEN Errorf(<<"missing x-appwrite-trigger header">>)
    ELSE NilError

\* VerifyTrigger
VerifyTrigger(headers) ==
  IF Lookup(headers, "x-appwrite-trigger") = ""
    THEN Errorf(<<"missing x-appwrite-trigger header">>)
    ELSE NilError

\* input[:n] on the bytes of input: whole characters while they fit, then
\* the leading byte of the character the cut falls in.
TakeBytes(s, n) ==
  LET fits == {k \in 0..Len(s) : ByteLength(SubSeq(s, 1, k)) <= n}
      whole == CHOOSE k \in fits : \A j \in fits : j <= k
  IN  IF whole < Len(s) /\ ByteLength(SubSeq(s, 1, whole)) < n
        THEN SubSeq(s, 1, whole) \o <<"0xC3">>
        ELSE SubSeq(s, 1, whole)

\* SanitizeString
SanitizeString(input) ==
  LET noNul == RemoveAll(input, NUL)
      trimmed == TrimSpace(noNul)
  IN  IF ByteLength(trimmed) > MaxSanitizedLen
        THEN TakeBytes(trimmed, MaxSanitizedLen)
        ELSE trimmed

\* ValidateInput: the request body is blank, is not the JSON of a
\* WorkspaceCreateRequest (the decoder's error names what it met), or is an
\* object whose missing keys leave the target's fields at their zero values.
ZeroCreateRequest == [Name |-> <<>>, Description |-> "", Plan |-> ""]

ValidateInputError(body) ==
  CASE body.kind = "blank" -> Errorf(<<"request body is empty">>)
    [] body.kind = "malformed" -> Errorf(<<"invalid JSON: ", body.detail>>)
    [] OTHER -> NilError

Unmarshal(body) ==
  [Name |-> IF "name" \in DOMAIN body.object
              THEN body.object.name ELSE <<>>,
   Description |-> Lookup(body.object, "description"),
   Plan |-> Lookup(body.object, "plan")]

\* ------------------------------------------------------------- state
VARIABLES
  pc,         \* where each invocation stands
  stdin,      \* the AppwriteFunctionRequest each invocation is given
  osenv,      \* the process environment of each invocation
  frame,      \* the local variables of handleRequest
  response,   \* what handleRequest returned
  stdout,     \* what the invocation has written to its output
  calls,      \* the requests each invocation has sent out, in order
  teams,      \* the teams of the project
  documents,  \* the documents of the project's database
  nextId,     \* how many ids the platform's unique() has handed out
  schema,     \* whether the workspaces collection has the documented attributes
  slugIn,     \* an input string given to generateSlug on its own
  slugOut,    \* and what generateSlug made of it
  sanitizeIn, \* an input string given to SanitizeString on its own
  sanitizeOut, \* and what SanitizeString made of it
  userTeamsIn, \* a user id given to GetUserTeams on its own
  userTeamsOut \* and what GetUserTeams returned for it

vars == <<pc, stdin, osenv, frame, response, stdout, calls, teams, documents,
          nextId, schema, slugIn, slugOut, sanitizeIn, sanitizeOut,
          userTeamsIn, userTeamsOut>>

\* The variables of the functions run on their own, apart from the slug's.
standalone == <<sanitizeIn, sanitizeOut, userTeamsIn, userTeamsOut>>

Invocations == 1..NumInvocations

\* ------------------------------------------------------------ inputs
\* Request environments (req.Env).  The documented one holds the secrets the
\* deployment guide lists; the second one also holds the two keys the handler
\* reads the database and collection ids from.
EnvDocumented ==
  [k \in {"APPWRITE_ENDPOINT", "APPWRITE_PROJECT_ID", "APPWRITE_API_KEY",
          "APPWRITE_DATABASE_ID", "APPWRITE_WORKSPACES_COLLECTION_ID"} |->
     CASE k = "APPWRITE_ENDPOINT" -> Endpoint
       [] k = "APPWRITE_PROJECT_ID" -> ProjectId
       [] k = "APPWRITE_API_KEY" -> ApiKey
       [] k = "APPWRITE_DATABASE_ID" -> DatabaseId
       [] OTHER -> CollectionId]

With(m, k, v) == [x \in DOMAIN m \cup {k} |-> IF x = k THEN v ELSE m[x]]

EnvLiteral ==
  With(With(EnvDocumented, "6952f51d00043d5bb1d9", DatabaseId),
       "workspaces", CollectionId)
EnvWebhookUrl == With(EnvLiteral, "WEBHOOK_URL", "https://hooks.example.com")
EnvWebhook == With(EnvWebhookUrl, "WEBHOOK_API_KEY", "webhook-key")

RequestEnvs == {EnvDocumented, EnvLiteral, EnvWebhookUrl, EnvWebhook}

\* Process environments (os.Getenv).  The second one also has variables
\* named by the three strings AuthenticateUser passes to os.Getenv.
OsDocumented ==
  [k \in {"APPWRITE_ENDPOINT", "APPWRITE_PROJECT_ID", "APPWRITE_API_KEY"} |->
     CASE k = "APPWRITE_ENDPOINT" -> Endpoint
       [] k = "APPWRITE_PROJECT_ID" -> ProjectId
       [] OTHER -> ApiKey]
AuthEndpointVar == "https://nyc.cloud.appwrite.io/v1"
AuthProjectVar == "6951e0720014e1d2dcd1"
\* (the third name is a long literal, shortened here)
AuthKeyVar == "standard_9906d29e...2cd337db35"
OsLiteral ==
  With(With(With(OsDocumented, AuthEndpointVar, Endpoint),
            AuthProjectVar, ProjectId), AuthKeyVar, ApiKey)

ProcessEnvs == {OsDocumented, OsLiteral}

\* Header maps: the trigger header absent, empty or set; the session header
\* absent, set to the valid session or to one the account service rejects.
NoHeaders == [k \in {} |-> ""]
HeaderMaps ==
  {With(h, "x-appwrite-session", s) :
     h \in {NoHeaders, With(NoHeaders, "x-appwrite-trigger", ""),
            With(NoHeaders, "x-appwrite-trigger", "http")},
     s \in {ValidSession, "", "stale-session"}}
  \cup {NoHeaders, With(NoHeaders, "x-appwrite-trigger", "http")}

\* Workspace names.
Names ==
  { <<>>,
    <<SP, SP>>,
    <<"a", "b">>,
    <<"a", "b", "c">>,
    <<"A", "b", "c">>,
    <<SP, "A", SP, "b", "1", SP>>,
    <<"a", "b", "c", LF>>,
    <<"a", TAB, "b">>,
    <<"a", "b", "!">>,
    <<"a", SOH, "b">>,
    <<"a", NUL, "b">>,
    <<"a", NUL, "b", "c">>,
    <<LowerEAcute, "a">>,
    <<"-", "-", "-">>,
    <<"a", "_", "B", "-", "7">>,
    Repeat("a", MaxNameLen - 1) \o <<LowerEAcute>>,
    Repeat("a", MaxNameLen),
    Repeat("a", MaxNameLen + 1),
    <<SP>> \o Repeat("b", MaxNameLen) }

Plans == {"", "pro", "gold"}

JsonBody(name, plan) ==
  [kind |-> "object", object |-> [name |-> name, plan |-> plan]]

Bodies ==
  {[kind |-> "blank"]}
  \cup {[kind |-> "malformed", detail |-> d] : d \in ErrorDetails}
  \cup {[kind |-> "object", object |-> [description |-> "no name"]]}
  \cup {JsonBody(n, p) : n \in Names, p \in Plans}

\* What an invocation reads from its input: a payload that does not decode
\* into an AppwriteFunctionRequest, or a request.
Undecodable == [decodes |-> FALSE]
Request(h, b, e) == [decodes |-> TRUE, Headers |-> h, Body |-> b, Env |-> e]

Payloads ==
  {Undecodable}
  \cup {Request(h, b, e) : h \in HeaderMaps, b \in Bodies, e \in RequestEnvs}

\* The payloads of the invocations that run side by side: two valid
\* requests with different slugs, either of which several invocations may
\* be given.
GoodHeaders ==
  With(With(NoHeaders, "x-appwrite-trigger", "http"),
       "x-appwrite-session", ValidSession)
ConcurrentPayloads ==
  { Request(GoodHeaders, JsonBody(<<"a", "b", "c">>, ""), EnvWebhook),
    Request(GoodHeaders, JsonBody(<<"A", "b", "d">>, "pro"), EnvLiteral) }

\* ---------------------------------------------------- handler pieces
NoSession == [UserID |-> "", SessionID |-> "", Email |-> "", Name |-> ""]
NoTeam == [Id |-> <<>>]
NoDocument == [Id |-> <<>>]
NoResponse == [StatusCode |-> 0]

ZeroFrame ==
  [sessionInfo |-> NoSession, createReq |-> ZeroCreateRequest,
   workspaceName |-> <<>>, plan |-> "", team |-> NoTeam, slug |-> <<>>,
   doc |-> NoDocument]

\* respondError
respondError(statusCode, code, message, field) ==
  [StatusCode |-> statusCode,
   Body |-> MarshalErrorResponse(NewErrorResponse(code, message, field))]

\* The class of the name pattern ^[a-zA-Z0-9\s\-_]+$
NameClass ==
  LowerChars \cup UpperChars \cup DigitChars \cup RegexSpace \cup {"-", "_"}

\* regexp.MatchString(`^[a-zA-Z0-9\s\-_]+$`, s)
MatchesNamePattern(s) == s # <<>> /\ \A k \in 1..Len(s) : s[k] \in NameClass

\* The length test with its upper limit left out.
NameLengthBadNoUpper(s) == ByteLength(s) < MinNameLen

\* len(workspaceName) < 3 || len(workspaceName) > 50
NameLengthBad(s) == ByteLength(s) < MinNameLen \/ ByteLength(s) > MaxNameLen

\* !matched
NamePatternBad(s) == ~MatchesNamePattern(s)

\* Step 4 after sanitizing: the message of the first check that fails, or
\* the empty message when the name passes.
NameValidationMessage(workspaceName) ==
  IF workspaceName = <<>> THEN <<"Workspace name is required">>
  ELSE IF NameLengthBad(workspaceName)
    THEN <<"Workspace name must be between 3 and 50 characters">>
  ELSE IF NamePatternBad(workspaceName)
    THEN <<"Workspace name contains invalid characters">>
  ELSE <<>>

\* Plan defaulting that also turns a plan outside the enum into "free".
DefaultPlanEnum(plan) == IF plan \in PlanEnum THEN plan ELSE "free"

\* Step 5: plan := createReq.Plan; if plan == "" { plan = "free" }
DefaultPlan(plan) == IF plan = "" THEN "free" ELSE plan

\* Step 6: the client handleRequest configures from req.Env
HandlerClient(env) ==
  [Endpoint |-> Lookup(env, "APPWRITE_ENDPOINT"),
   Project |-> Lookup(env, "APPWRITE_PROJECT_ID"),
   Key |-> Lookup(env, "APPWRITE_API_KEY")]

\* The client AuthenticateUser configures from the process environment
AuthClient(penv) ==
  [Endpoint |-> Lookup(penv, AuthEndpointVar),
   Project |-> Lookup(penv, AuthProjectVar),
   Key |-> Lookup(penv, AuthKeyVar)]

\* fmt.Sprintf("%s Workspace", workspaceName)
TeamName(workspaceName) == workspaceName \o <<" Workspace">>

\* workspaceDoc of Step 8
WorkspaceDoc(workspaceName, slug, teamId, ownerId, plan, description) ==
  [name |-> workspaceName, slug |-> slug, teamId |-> teamId,
   ownerId |-> ownerId, status |-> "active", plan |-> plan,
   tenantId |-> teamId, createdAt |-> "now",
   description |-> description]

\* Permissions naming the project's first team, whatever team was created.
PermissionsFirstTeam(teamId) ==
  << <<"read", "team", <<"team", 1>> >>,
     <<"write", "team", <<"team", 1>>, "owner">> >>

\* permissions of Step 8
Permissions(teamId) ==
  << <<"read", "team", teamId>>, <<"write", "team", teamId, "owner">> >>

\* databaseID and collectionID of Step 8
DatabaseIdOf(env) == Lookup(env, "6952f51d00043d5bb1d9")
CollectionIdOf(env) == Lookup(env, "workspaces")

\* workspace of Step 11
WorkspaceOf(f) ==
  [ID |-> f.doc.Id, Name |-> f.workspaceName, Slug |-> f.slug,
   TeamID |-> f.team.Id, OwnerID |-> f.sessionInfo.UserID,
   CreatedAt |-> "now", Status |-> "active", Plan |-> f.plan,
   TenantID |-> f.team.Id]

\* The success response of Step 11
SuccessResponse(f) ==
  [StatusCode |-> 200,
   Body |-> MarshalWorkspaceResponse(
              [Success |-> TRUE, Workspace |-> WorkspaceOf(f),
               Message |-> "Workspace created successfully"])]

\* sendWelcomeWebhook: the error it returns (it only writes a log line when
\* both settings are there).
sendWelcomeWebhook(env) ==
  IF Lookup(env, "WEBHOOK_URL") = ""
    THEN Errorf(<<"webhook URL not configured">>)
  ELSE IF Lookup(env, "WEBHOOK_API_KEY") = ""
    THEN Errorf(<<"webhook API key not configured">>)
  ELSE NilError

\* ------------------------------------------- what the platform answers
\* account.Get with a session header: the user of a valid session when the
\* client reaches the project; any call can fail.
AccountGet(client, session) ==
  {[ok |-> FALSE, detail |-> d] : d \in ErrorDetails}
  \cup (IF Reaches(client) /\ session = ValidSession
          THEN {[ok |-> TRUE, user |-> UserOf(session)]}
          ELSE {})

\* The members a team has when teams.Create("unique()", name) has made it:
\* the request names no user, so the user of the client's session as owner
\* when the client carries a session, and nobody for a client with a key.
MembersAtCreation(client) ==
  IF "Session" \in DOMAIN client
    THEN {[UserId |-> UserOf(client.Session).Id, Roles |-> {"owner"}]}
    ELSE {}

\* teams.Create("unique()", name) can succeed for an admin client.
TeamsCreateCanSucceed(client) == IsAdmin(client)

\* A store that does not hold the slug unique.
StoreAcceptsAnySlug(client, databaseID, collectionID, data) ==
  /\ IsAdmin(client)
  /\ databaseID = DatabaseId
  /\ collectionID = CollectionId
  /\ schema = "documented" => data.plan \in PlanEnum

\* databases.CreateDocument is accepted when database and collection are the
\* project's and, with the documented attributes in place, the slug is new
\* and the plan is one of the enum's.
StoreAccepts(client, databaseID, collectionID, data) ==
  /\ IsAdmin(client)
  /\ databaseID = DatabaseId
  /\ collectionID = CollectionId
  /\ schema = "documented" =>
       /\ \A d \in documents : d.data.slug # data.slug
       /\ data.plan \in PlanEnum

\* The err a platform call returns: nil when it succeeded, and otherwise
\* an error with some detail of the platform's.
PlatformErrors(ok) == IF ok THEN {""} ELSE ErrorDetails

Call(i, c) == calls' = [calls EXCEPT ![i] = Append(@, c)]

Return(i, r) ==
  /\ response' = [response EXCEPT ![i] = r]
  /\ pc' = [pc EXCEPT ![i] = "output"]

Goto(i, label) == pc' = [pc EXCEPT ![i] = label]

\* ----------------------------------------------------------- actions
\* main: decode the payload; when that fails the error response is built
\* and dropped, and main returns without writing anything.
Main(i) ==
  /\ pc[i] = "main"
  /\ IF stdin[i].decodes
       THEN Goto(i, "VerifyTrigger")
       ELSE Goto(i, "exit")
  /\ UNCHANGED <<stdin, osenv, frame, response, stdout, calls, teams,
                 documents, nextId, schema, slugIn, slugOut, standalone>>

\* Step 1
StepVerifyTrigger(i) ==
  /\ pc[i] = "VerifyTrigger"
  /\ LET err == VerifyTrigger(stdin[i].Headers)
     IN  IF err.isErr
           THEN Return(i, respondError(401, "UNAUTHORIZED", err.msg, ""))
           ELSE Goto(i, "AuthenticateUser") /\ UNCHANGED response
  /\ UNCHANGED <<stdin, osenv, frame, stdout, calls, teams, documents,
                 nextId, schema, slugIn, slugOut, standalone>>

\* The test of the token left out.
TokenMissingNever(sessionToken) == FALSE

\* if sessionToken == ""
TokenMissing(sessionToken) == sessionToken = ""

\* Step 2: AuthenticateUser and the check of its error
AuthenticateUser(i) ==
  /\ pc[i] = "AuthenticateUser"
  /\ LET sessionToken == Lookup(stdin[i].Headers, "x-appwrite-session")
     IN  IF TokenMissing(sessionToken)
           THEN /\ Return(i, respondError(401, "AUTHENTICATION_FAILED",
                                          <<"missing authentication token">>, ""))
                /\ UNCHANGED <<frame, calls>>
           ELSE \E got \in AccountGet(AuthClient(osenv[i]), sessionToken) :
                  /\ Call(i, [op |-> "account.Get", arg |-> sessionToken,
                              ok |-> got.ok])
                  /\ IF got.ok
                       THEN /\ frame' = [frame EXCEPT ![i].sessionInfo =
                                           [UserID |-> got.user.Id,
                                            SessionID |-> sessionToken,
                                            Email |-> got.user.Email,
                                            Name |-> got.user.Name]]
                            /\ Goto(i, "ValidateInput")
                            /\ UNCHANGED response
                       ELSE /\ Return(i, respondError(401, "AUTHENTICATION_FAILED",
                                            <<"authentication failed: ", got.detail>>, ""))
                            /\ UNCHANGED frame
  /\ UNCHANGED <<stdin, osenv, stdout, teams, documents, nextId, schema,
                 slugIn, slugOut, standalone>>

\* Step 3 with the error of ValidateInput left unchecked: the handler goes
\* on to the name checks with whatever was decoded.
StepValidateInputUnchecked(i) ==
  /\ pc[i] = "ValidateInput"
  /\ frame' = [frame EXCEPT ![i].createReq =
                 IF ValidateInputError(stdin[i].Body).isErr
                   THEN ZeroCreateRequest ELSE Unmarshal(stdin[i].Body)]
  /\ Goto(i, "ValidateName")
  /\ UNCHANGED <<stdin, osenv, response, stdout, calls, teams, documents,
                 nextId, schema, slugIn, slugOut, standalone>>

\* Step 3
StepValidateInput(i) ==
  /\ pc[i] = "ValidateInput"
  /\ LET err == ValidateInputError(stdin[i].Body)
     IN  IF err.isErr
           THEN /\ Return(i, respondError(400, "INVALID_INPUT", err.msg, ""))
                /\ UNCHANGED frame
           ELSE /\ frame' = [frame EXCEPT ![i].createReq = Unmarshal(stdin[i].Body)]
                /\ Goto(i, "ValidateName")
                /\ UNCHANGED response
  /\ UNCHANGED <<stdin, osenv, stdout, calls, teams, documents, nextId,
                 schema, slugIn, slugOut, standalone>>

\* Steps 4 and 5: sanitize and validate the name, default the plan
ValidateName(i) ==
  /\ pc[i] = "ValidateName"
  /\ LET workspaceName == SanitizeString(frame[i].createReq.Name)
         message == NameValidationMessage(workspaceName)
     IN  IF message # <<>>
           THEN /\ frame' = [frame EXCEPT ![i].workspaceName = workspaceName]
                /\ Return(i, respondError(400, "VALIDATION_ERROR", message, "name"))
           ELSE /\ frame' = [frame EXCEPT
                               ![i].workspaceName = workspaceName,
                               ![i].plan = DefaultPlan(frame[i].createReq.Plan)]
                /\ Goto(i, "CreateTeam")
                /\ UNCHANGED response
  /\ UNCHANGED <<stdin, osenv, stdout, calls, teams, documents, nextId,
                 schema, slugIn, slugOut, standalone>>

\* Steps 6 and 7 with the error of teamsService.Create left unchecked: the
\* handler goes on to Step 8 with the zero team.
CreateTeamUnchecked(i) ==
  /\ pc[i] = "CreateTeam"
  /\ \E ok \in {TRUE, FALSE} : \E err \in PlatformErrors(ok) :
       /\ ok => TeamsCreateCanSucceed(HandlerClient(stdin[i].Env))
       /\ Call(i, [op |-> "teams.Create", ok |-> ok, err |-> err,
                   arg |-> TeamName(frame[i].workspaceName),
                   res |-> IF ok THEN <<"team", nextId + 1>> ELSE <<>>])
       /\ IF ok
            THEN LET team == [Id |-> <<"team", nextId + 1>>,
                              Name |-> TeamName(frame[i].workspaceName),
                              Members |-> MembersAtCreation(
                                            HandlerClient(stdin[i].Env))]
                 IN  /\ teams' = teams \cup {team}
                     /\ nextId' = nextId + 1
                     /\ frame' = [frame EXCEPT ![i].team = [Id |-> team.Id]]
            ELSE UNCHANGED <<teams, nextId, frame>>
  /\ Goto(i, "CreateDocument")
  /\ UNCHANGED <<stdin, osenv, response, stdout, documents, schema, slugIn,
                 slugOut, standalone>>

\* Steps 6 and 7 with the platform's error put into the response message.
CreateTeamDetailed(i) ==
  /\ pc[i] = "CreateTeam"
  /\ \E ok \in {TRUE, FALSE} : \E err \in PlatformErrors(ok) :
       /\ ok => TeamsCreateCanSucceed(HandlerClient(stdin[i].Env))
       /\ Call(i, [op |-> "teams.Create", ok |-> ok, err |-> err,
                   arg |-> TeamName(frame[i].workspaceName),
                   res |-> IF ok THEN <<"team", nextId + 1>> ELSE <<>>])
       /\ IF ok
            THEN LET team == [Id |-> <<"team", nextId + 1>>,
                              Name |-> TeamName(frame[i].workspaceName),
                              Members |-> MembersAtCreation(
                                            HandlerClient(stdin[i].Env))]
                 IN  /\ teams' = teams \cup {team}
                     /\ nextId' = nextId + 1
                     /\ frame' = [frame EXCEPT ![i].team = [Id |-> team.Id]]
                     /\ Goto(i, "CreateDocument")
                     /\ UNCHANGED response
            ELSE /\ Return(i, respondError(500, "TEAM_CREATION_FAILED",
                                 <<"Failed to create workspace team: ", err>>, ""))
                 /\ UNCHANGED <<teams, nextId, frame>>
  /\ UNCHANGED <<stdin, osenv, stdout, documents, schema, slugIn, slugOut, standalone>>

\* Steps 6 and 7: teamsService.Create("unique()", teamName)
CreateTeam(i) ==
  /\ pc[i] = "CreateTeam"
  /\ \E ok \in {TRUE, FALSE} : \E err \in PlatformErrors(ok) :
       /\ ok => TeamsCreateCanSucceed(HandlerClient(stdin[i].Env))
       /\ Call(i, [op |-> "teams.Create", ok |-> ok, err |-> err,
                   arg |-> TeamName(frame[i].workspaceName),
                   res |-> IF ok THEN <<"team", nextId + 1>> ELSE <<>>])
       /\ IF ok
            THEN LET team == [Id |-> <<"team", nextId + 1>>,
                              Name |-> TeamName(frame[i].workspaceName),
                              Members |-> MembersAtCreation(
                                            HandlerClient(stdin[i].Env))]
                 IN  /\ teams' = teams \cup {team}
                     /\ nextId' = nextId + 1
                     /\ frame' = [frame EXCEPT ![i].team = [Id |-> team.Id]]
                     /\ Goto(i, "CreateDocument")
                     /\ UNCHANGED response
            ELSE /\ Return(i, respondError(500, "TEAM_CREATION_FAILED",
                                 <<"Failed to create workspace team">>, ""))
                 /\ UNCHANGED <<teams, nextId, frame>>
  /\ UNCHANGED <<stdin, osenv, stdout, documents, schema, slugIn, slugOut, standalone>>

\* Step 8: build the document and call databasesService.CreateDocument
CreateDocument(i) ==
  /\ pc[i] = "CreateDocument"
  /\ LET f == frame[i]
         env == stdin[i].Env
         slug == generateSlug(f.workspaceName)
         data == WorkspaceDoc(f.workspaceName, slug, f.team.Id,
                              f.sessionInfo.UserID, f.plan,
                              f.createReq.Description)
     IN  \E ok \in {TRUE, FALSE} : \E err \in PlatformErrors(ok) :
              /\ ok => StoreAccepts(HandlerClient(env), DatabaseIdOf(env),
                                    CollectionIdOf(env), data)
              /\ Call(i, [op |-> "databases.CreateDocument", ok |-> ok,
                          err |-> err,
                          arg |-> <<DatabaseIdOf(env), CollectionIdOf(env),
                                    data, Permissions(f.team.Id)>>,
                          res |-> IF ok THEN <<"doc", nextId + 1>> ELSE <<>>])
              /\ IF ok
                   THEN LET doc == [Id |-> <<"doc", nextId + 1>>,
                                    data |-> data,
                                    permissions |-> Permissions(f.team.Id)]
                        IN  /\ documents' = documents \cup {doc}
                            /\ nextId' = nextId + 1
                            /\ frame' = [frame EXCEPT ![i].slug = slug,
                                                      ![i].doc = [Id |-> doc.Id]]
                            /\ Goto(i, "InitCollection")
                   ELSE /\ frame' = [frame EXCEPT ![i].slug = slug]
                        /\ Goto(i, "DeleteTeam")
                        /\ UNCHANGED <<documents, nextId>>
  /\ UNCHANGED <<stdin, osenv, response, stdout, teams, schema, slugIn, slugOut, standalone>>

\* The cleanup aimed at the project's first team.
CleanupTargetFirst(i) == <<"team", 1>>

\* The team the cleanup deletes: team.Id
CleanupTarget(i) == frame[i].team.Id

\* The cleanup left out: the error response is returned at once.
DeleteTeamSkipped(i) ==
  /\ pc[i] = "DeleteTeam"
  /\ Return(i, respondError(500, "WORKSPACE_CREATION_FAILED",
                            <<"Failed to create workspace document">>, ""))
  /\ UNCHANGED <<stdin, osenv, frame, stdout, calls, teams, documents, nextId,
                 schema, slugIn, slugOut, standalone>>

\* The cleanup tried a second time when the first delete fails.
DeleteTeamRetried(i) ==
  /\ pc[i] = "DeleteTeam"
  /\ \E ok \in {TRUE, FALSE} :
       /\ ok => IsAdmin(HandlerClient(stdin[i].Env))
       /\ Call(i, [op |-> "teams.Delete", ok |-> ok, arg |-> CleanupTarget(i)])
       /\ teams' = IF ok THEN {t \in teams : t.Id # CleanupTarget(i)} ELSE teams
       /\ IF ok \/ calls[i][Len(calls[i])].op = "teams.Delete"
            THEN Return(i, respondError(500, "WORKSPACE_CREATION_FAILED",
                              <<"Failed to create workspace document">>, ""))
            ELSE UNCHANGED <<pc, response>>
  /\ UNCHANGED <<stdin, osenv, frame, stdout, documents, nextId, schema,
                 slugIn, slugOut, standalone>>

\* The cleanup of a failed Step 8: teamsService.Delete(team.Id), its result
\* ignored, then the error response
DeleteTeam(i) ==
  /\ pc[i] = "DeleteTeam"
  /\ \E ok \in {TRUE, FALSE} :
       /\ ok => IsAdmin(HandlerClient(stdin[i].Env))
       /\ Call(i, [op |-> "teams.Delete", ok |-> ok, arg |-> CleanupTarget(i)])
       /\ teams' = IF ok THEN {t \in teams : t.Id # CleanupTarget(i)} ELSE teams
  /\ Return(i, respondError(500, "WORKSPACE_CREATION_FAILED",
                            <<"Failed to create workspace document">>, ""))
  /\ UNCHANGED <<stdin, osenv, frame, stdout, documents, nextId, schema,
                 slugIn, slugOut, standalone>>

\* Step 9: initializeWorkspaceCollection is a placeholder that returns nil
InitCollection(i) ==
  /\ pc[i] = "InitCollection"
  /\ Goto(i, "SendWebhook")
  /\ UNCHANGED <<stdin, osenv, frame, response, stdout, calls, teams,
                 documents, nextId, schema, slugIn, slugOut, standalone>>

\* Step 10 with a webhook error treated as fatal.
SendWebhookFatal(i) ==
  /\ pc[i] = "SendWebhook"
  /\ IF sendWelcomeWebhook(stdin[i].Env).isErr
       THEN Return(i, respondError(500, "WEBHOOK_FAILED",
                                   sendWelcomeWebhook(stdin[i].Env).msg, ""))
       ELSE Goto(i, "Respond") /\ UNCHANGED response
  /\ UNCHANGED <<stdin, osenv, frame, stdout, calls, teams, documents,
                 nextId, schema, slugIn, slugOut, standalone>>

\* Step 10: sendWelcomeWebhook sends nothing; whether it returns an error
\* or nil, the handler goes on to Step 11
SendWebhook(i) ==
  /\ pc[i] = "SendWebhook"
  /\ sendWelcomeWebhook(stdin[i].Env).isErr \in BOOLEAN
  /\ Goto(i, "Respond")
  /\ UNCHANGED <<stdin, osenv, frame, response, stdout, calls, teams,
                 documents, nextId, schema, slugIn, slugOut, standalone>>

\* Step 11
Respond(i) ==
  /\ pc[i] = "Respond"
  /\ Return(i, SuccessResponse(frame[i]))
  /\ UNCHANGED <<stdin, osenv, frame, stdout, calls, teams, documents,
                 nextId, schema, slugIn, slugOut, standalone>>

\* main: marshal what handleRequest returned and write it out
WriteOutput(i) ==
  /\ pc[i] = "output"
  /\ stdout' = [stdout EXCEPT ![i] = Append(@, response[i])]
  /\ Goto(i, "exit")
  /\ UNCHANGED <<stdin, osenv, frame, response, calls, teams, documents,
                 nextId, schema, slugIn, slugOut, standalone>>

\* ------------------------------------------------------ specifications
Idle ==
  /\ frame = [i \in Invocations |-> ZeroFrame]
  /\ response = [i \in Invocations |-> NoResponse]
  /\ stdout = [i \in Invocations |-> <<>>]
  /\ calls = [i \in Invocations |-> <<>>]
  /\ teams = {}
  /\ documents = {}
  /\ nextId = 0

NoSlugInput == slugIn = <<>> /\ slugOut = [computed |-> FALSE, slug |-> <<>>]

NoSanitizeInput ==
  sanitizeIn = <<>> /\ sanitizeOut = [computed |-> FALSE, result |-> <<>>]

NoUserTeamsInput == userTeamsIn = "" /\ userTeamsOut = [computed |-> FALSE]

\* The invocations run the same code, so they are numbered in the order of
\* their payloads: every choice of payloads is there once.
PayloadNumber ==
  CHOOSE f \in [ConcurrentPayloads -> 1..Cardinality(ConcurrentPayloads)] :
    \A p, q \in ConcurrentPayloads : p # q => f[p] # f[q]
PayloadChoices ==
  {s \in [Invocations -> ConcurrentPayloads] :
     \A i, j \in Invocations :
       i < j => PayloadNumber[s[i]] <= PayloadNumber[s[j]]}

\* Invocations running side by side.
Init ==
  /\ Idle
  /\ NoSanitizeInput
  /\ NoUserTeamsInput
  /\ NoSlugInput
  /\ pc = [i \in Invocations |-> "main"]
  /\ stdin \in PayloadChoices
  /\ osenv = [i \in Invocations |-> OsLiteral]
  /\ schema = "documented"

Next ==
  \E i \in Invocations :
    \/ Main(i)
    \/ StepVerifyTrigger(i)
    \/ AuthenticateUser(i)
    \/ StepValidateInput(i)
    \/ ValidateName(i)
    \/ CreateTeam(i)
    \/ CreateDocument(i)
    \/ DeleteTeam(i)
    \/ InitCollection(i)
    \/ SendWebhook(i)
    \/ Respond(i)
    \/ WriteOutput(i)

Spec == Init /\ [][Next]_vars

\* A halt that takes the invocation's team with it, as a recovery on the
\* way down would.
CrashRecovered(i) ==
  /\ pc[i] \notin {"idle", "exit", "crashed"}
  /\ Goto(i, "crashed")
  /\ teams' = {t \in teams : t.Id # frame[i].team.Id}
  /\ UNCHANGED <<stdin, osenv, frame, response, stdout, calls, documents,
                 nextId, schema, slugIn, slugOut, standalone>>

\* The process halts between two steps (killed, timed out, out of memory):
\* nothing is written, nothing is undone, and it takes no further step.
Crash(i) ==
  /\ pc[i] \notin {"idle", "exit", "crashed"}
  /\ Goto(i, "crashed")
  /\ UNCHANGED <<stdin, osenv, frame, response, stdout, calls, teams,
                 documents, nextId, schema, slugIn, slugOut, standalone>>

\* Invocations given the same request running side by side, any of which
\* may halt at any point.
CrashInit ==
  /\ Idle
  /\ NoSanitizeInput
  /\ NoUserTeamsInput
  /\ NoSlugInput
  /\ pc = [i \in Invocations |-> "main"]
  /\ \E p \in ConcurrentPayloads : stdin = [i \in Invocations |-> p]
  /\ osenv = [i \in Invocations |-> OsLiteral]
  /\ schema = "documented"

CrashNext == Next \/ \E i \in Invocations : Crash(i)

CrashSpec == CrashInit /\ [][CrashNext]_vars

\* One invocation on its own, with any payload and process environment.
GateInit ==
  /\ Idle
  /\ NoSanitizeInput
  /\ NoUserTeamsInput
  /\ NoSlugInput
  /\ pc = [i \in Invocations |-> IF i = 1 THEN "main" ELSE "idle"]
  /\ \E p \in Payloads :
       stdin = [i \in Invocations |-> IF i = 1 THEN p ELSE Undecodable]
  /\ \E e \in ProcessEnvs : osenv = [i \in Invocations |-> e]
  /\ schema \in {"documented", "open"}

GateSpec == GateInit /\ [][Next]_vars

\* generateSlug on its own.
SlugAlphabet == {"a", "B", "1", SP, "-", "!", UpperEAcute}
SlugInputs == UNION {[1..n -> SlugAlphabet] : n \in 0..MaxSlugInput}

SlugInit ==
  /\ Idle
  /\ NoSanitizeInput
  /\ NoUserTeamsInput
  /\ pc = [i \in Invocations |-> "idle"]
  /\ stdin = [i \in Invocations |-> Undecodable]
  /\ osenv = [i \in Invocations |-> OsDocumented]
  /\ schema = "documented"
  /\ slugIn \in SlugInputs
  /\ slugOut = [computed |-> FALSE, slug |-> <<>>]

ApplySlug ==
  /\ ~slugOut.computed
  /\ slugOut' = [computed |-> TRUE, slug |-> generateSlug(slugIn)]
  /\ UNCHANGED <<pc, stdin, osenv, frame, response, stdout, calls, teams,
                 documents, nextId, schema, slugIn, standalone>>

\* The slug is given to generateSlug again.
FeedBack ==
  /\ slugOut.computed
  /\ slugIn # slugOut.slug
  /\ slugIn' = slugOut.slug
  /\ slugOut' = [computed |-> FALSE, slug |-> <<>>]
  /\ UNCHANGED <<pc, stdin, osenv, frame, response, stdout, calls, teams,
                 documents, nextId, schema, standalone>>

SlugNext == ApplySlug \/ FeedBack

SlugSpec == SlugInit /\ [][SlugNext]_vars

\* SanitizeString on its own: short strings of every kind of character, and
\* strings around the length limit.
SanitizeAlphabet == {"a", SP, NBSP, TAB, NUL, SOH, LowerEAcute}
SanitizeInputs ==
  UNION {[1..n -> SanitizeAlphabet] : n \in 0..MaxSanitizeInput}
  \cup { Repeat("a", MaxSanitizedLen),
         Repeat("a", MaxSanitizedLen + 1),
         Repeat("a", MaxSanitizedLen - 1) \o <<SP, "b">>,
         Repeat("a", MaxSanitizedLen - 1) \o <<LowerEAcute>>,
         <<SP>> \o Repeat("a", MaxSanitizedLen) \o <<SP>> }

SanitizeInit ==
  /\ Idle
  /\ NoSlugInput
  /\ pc = [i \in Invocations |-> "idle"]
  /\ stdin = [i \in Invocations |-> Undecodable]
  /\ osenv = [i \in Invocations |-> OsDocumented]
  /\ schema = "documented"
  /\ NoUserTeamsInput
  /\ sanitizeIn \in SanitizeInputs
  /\ sanitizeOut = [computed |-> FALSE, result |-> <<>>]

ApplySanitize ==
  /\ ~sanitizeOut.computed
  /\ sanitizeOut' = [computed |-> TRUE, result |-> SanitizeString(sanitizeIn)]
  /\ UNCHANGED <<pc, stdin, osenv, frame, response, stdout, calls, teams,
                 documents, nextId, schema, slugIn, slugOut, sanitizeIn,
                 userTeamsIn, userTeamsOut>>

SanitizeNext == ApplySanitize

SanitizeSpec == SanitizeInit /\ [][SanitizeNext]_vars

\* GetUserTeams on its own, against a project that holds some teams with
\* some members.
Users == {"u1", "u2", "u3"}
ListedTeam(n, us) ==
  [Id |-> <<"team", n>>, Name |-> <<"t", " Workspace">>,
   Members |-> {[UserId |-> u, Roles |-> {"owner"}] : u \in us}]
ProjectTeams ==
  UNION {{{ListedTeam(n, f[n]) : n \in ids} : f \in [ids -> SUBSET Users]} :
           ids \in SUBSET (1..MaxListedTeams)}

\* teams.List() on a client with the server key: every team of the project,
\* or an error.
TeamsList ==
  {[ok |-> TRUE, Teams |-> teams]}
  \cup {[ok |-> FALSE, detail |-> d] : d \in ErrorDetails}

\* TeamService.GetUserTeams(userID) given what teams.List() returned: the id
\* of every listed team is appended, userID is not looked at.
GetUserTeams(userID, teamsList) ==
  IF ~teamsList.ok
    THEN [teamIDs |-> {},
          err |-> Errorf(<<"failed to list teams: ", teamsList.detail>>)]
    ELSE [teamIDs |-> {team.Id : team \in teamsList.Teams}, err |-> NilError]

UserTeamsInit ==
  /\ frame = [i \in Invocations |-> ZeroFrame]
  /\ response = [i \in Invocations |-> NoResponse]
  /\ stdout = [i \in Invocations |-> <<>>]
  /\ calls = [i \in Invocations |-> <<>>]
  /\ documents = {}
  /\ nextId = 0
  /\ NoSlugInput
  /\ NoSanitizeInput
  /\ pc = [i \in Invocations |-> "idle"]
  /\ stdin = [i \in Invocations |-> Undecodable]
  /\ osenv = [i \in Invocations |-> OsDocumented]
  /\ schema = "documented"
  /\ teams \in ProjectTeams
  /\ userTeamsIn \in Users
  /\ userTeamsOut = [computed |-> FALSE]

ApplyGetUserTeams ==
  /\ ~userTeamsOut.computed
  /\ \E teamsList \in TeamsList :
       userTeamsOut' = [computed |-> TRUE,
                        result |-> GetUserTeams(userTeamsIn, teamsList)]
  /\ UNCHANGED <<pc, stdin, osenv, frame, response, stdout, calls, teams,
                 documents, nextId, schema, slugIn, slugOut, sanitizeIn,
                 sanitizeOut, userTeamsIn>>

UserTeamsNext == ApplyGetUserTeams

UserTeamsSpec == UserTeamsInit /\ [][UserTeamsNext]_vars

\* -------------------------------------------------------------- claims
\* What the claims read off a state.
\* handleRequest has returned its response.
Returned(i) == response[i] # NoResponse
\* The response has been written to the output.
Written(i) == pc[i] = "exit" /\ stdout[i] # <<>>
CallsOf(i, op) == {k \in 1..Len(calls[i]) : calls[i][k].op = op}
CreationCalls(i) ==
  CallsOf(i, "teams.Create") \cup CallsOf(i, "databases.CreateDocument")
TeamIds == {t.Id : t \in teams}
CreatedTeamIds(i) ==
  {calls[i][k].res : k \in {j \in CallsOf(i, "teams.Create") : calls[i][j].ok}}
DocumentFailed(i) ==
  \E k \in CallsOf(i, "databases.CreateDocument") : ~calls[i][k].ok
IsFailure(r, status, code) ==
  /\ r.StatusCode = status
  /\ ~r.Body.success
  /\ r.Body.error.code = code

\* C1: in every reachable state, every persisted workspace document
\* references (teamId) a team that exists on the platform.
C1_DocumentsReferenceExistingTeams ==
  \A d \in documents : d.data.teamId \in TeamIds

\* C1 witness: a document is persisted with its team while another
\* invocation has failed to persist its own and has returned.
C1_Witness ==
  /\ \E d \in documents : d.data.teamId \in TeamIds
  /\ \E i \in Invocations : Written(i) /\ DocumentFailed(i)

\* C2: when an invocation's team creation succeeded and its document
\* creation failed, no document references its team, and once it has
\* returned it has issued one team delete, for the id its own teams.Create
\* returned, and its response is WORKSPACE_CREATION_FAILED (500).
C2_FailedDocumentDeletesOwnTeam ==
  \A i \in Invocations :
    (CreatedTeamIds(i) # {} /\ DocumentFailed(i)) =>
      /\ \A d \in documents : d.data.teamId \notin CreatedTeamIds(i)
      /\ Returned(i) =>
           /\ Cardinality(CallsOf(i, "teams.Delete")) = 1
           /\ \A k \in CallsOf(i, "teams.Delete") :
                calls[i][k].arg \in CreatedTeamIds(i)
           /\ IsFailure(response[i], 500, "WORKSPACE_CREATION_FAILED")

\* C2 witness: the second team of the project was created by an invocation
\* whose document creation failed; it has deleted that team and returned.
C2_Witness ==
  \E i \in Invocations :
    /\ Written(i)
    /\ DocumentFailed(i)
    /\ CreatedTeamIds(i) = {<<"team", 2>>}
    /\ <<"team", 2>> \notin TeamIds
    /\ documents # {}

\* C3 (as claimed): once an invocation has returned its response, the team
\* it created exists exactly when a document referencing that team exists.
C3_AllOrNothing ==
  \A i \in Invocations :
    Written(i) =>
      \A tid \in CreatedTeamIds(i) :
        (tid \in TeamIds) <=> (\E d \in documents : d.data.teamId = tid)

\* The gates a request has passed, read off the request and the calls.
TriggerValue(i) == Lookup(stdin[i].Headers, "x-appwrite-trigger")
SessionValue(i) == Lookup(stdin[i].Headers, "x-appwrite-session")
Authenticated(i) == \E k \in CallsOf(i, "account.Get") : calls[i][k].ok
AuthRejected(i) == \E k \in CallsOf(i, "account.Get") : ~calls[i][k].ok
PassedEarlierGates(i) ==
  /\ stdin[i].decodes
  /\ TriggerValue(i) # ""
  /\ Authenticated(i)
  /\ stdin[i].Body.kind = "object"
RequestName(i) ==
  IF "name" \in DOMAIN stdin[i].Body.object
    THEN stdin[i].Body.object.name ELSE <<>>
SanitizedName(i) == SanitizeString(RequestName(i))
ValidationErrorOnName(r) ==
  /\ IsFailure(r, 400, "VALIDATION_ERROR")
  /\ "field" \in DOMAIN r.Body.error
  /\ r.Body.error.field = "name"
\* Out of [3,50], counted in characters or in bytes.
LengthOutOfRange(s) ==
  \/ Len(s) < 3 \/ Len(s) > 50
  \/ ByteLength(s) < 3 \/ ByteLength(s) > 50
\* The class [A-Za-z0-9 _-]
SpecNameClass == LowerChars \cup UpperChars \cup DigitChars \cup {SP, "_", "-"}

\* C4: for a request past the trigger, authentication and body-parse gates
\* whose sanitized name is shorter than 3 or longer than 50, no team or
\* document creation call is ever made, and the response is
\* VALIDATION_ERROR (400) with field "name".
C4_BadLengthIsValidationError ==
  \A i \in Invocations :
    (PassedEarlierGates(i) /\ LengthOutOfRange(SanitizedName(i))) =>
      /\ CreationCalls(i) = {}
      /\ Returned(i) => ValidationErrorOnName(response[i])

\* C4 witness: a name of 51 characters has been answered with
\* VALIDATION_ERROR on "name".
C4_Witness ==
  \E i \in Invocations :
    /\ Written(i)
    /\ PassedEarlierGates(i)
    /\ Len(SanitizedName(i)) = 51
    /\ ValidationErrorOnName(stdout[i][1])

\* C5 (as claimed): for a request past the earlier gates whose sanitized
\* name holds a character outside [A-Za-z0-9 _-], no team or document
\* creation call is made and the response is VALIDATION_ERROR.
C5_OutsideClassIsValidationError ==
  \A i \in Invocations :
    (/\ PassedEarlierGates(i)
     /\ \E k \in 1..Len(SanitizedName(i)) :
          SanitizedName(i)[k] \notin SpecNameClass) =>
      /\ CreationCalls(i) = {}
      /\ Returned(i) => ValidationErrorOnName(response[i])

\* C6: for a request with the trigger header whose session token is missing
\* or rejected by the account service, no creation call is made and the
\* response is AUTHENTICATION_FAILED (401); with the token missing the
\* account service is not called.
C6_BadSessionIsAuthenticationFailed ==
  \A i \in Invocations :
    (stdin[i].decodes /\ TriggerValue(i) # "") =>
      /\ SessionValue(i) = "" => CallsOf(i, "account.Get") = {}
      /\ (SessionValue(i) = "" \/ AuthRejected(i)) =>
           /\ CreationCalls(i) = {}
           /\ Returned(i) =>
                IsFailure(response[i], 401, "AUTHENTICATION_FAILED")

\* C6 witness: a session the account service rejected has been answered
\* with AUTHENTICATION_FAILED.
C6_Witness ==
  \E i \in Invocations :
    /\ Written(i)
    /\ TriggerValue(i) # ""
    /\ SessionValue(i) = "stale-session"
    /\ AuthRejected(i)
    /\ IsFailure(stdout[i][1], 401, "AUTHENTICATION_FAILED")

\* C7: a request whose x-appwrite-trigger header is absent or empty makes
\* no external call at all and is answered with UNAUTHORIZED (401).
C7_NoTriggerIsUnauthorized ==
  \A i \in Invocations :
    (stdin[i].decodes /\ TriggerValue(i) = "") =>
      /\ calls[i] = <<>>
      /\ Returned(i) => IsFailure(response[i], 401, "UNAUTHORIZED")

\* C7 witness: a request with an empty trigger header and an otherwise
\* valid session has been answered with UNAUTHORIZED.
C7_Witness ==
  \E i \in Invocations :
    /\ Written(i)
    /\ "x-appwrite-trigger" \in DOMAIN stdin[i].Headers
    /\ TriggerValue(i) = ""
    /\ SessionValue(i) = ValidSession
    /\ IsFailure(stdout[i][1], 401, "UNAUTHORIZED")

\* The status the handler gives each error code.
StatusOfCode(code) ==
  CASE code \in {"UNAUTHORIZED", "AUTHENTICATION_FAILED"} -> 401
    [] code \in {"INVALID_INPUT", "VALIDATION_ERROR"} -> 400
    [] code \in {"TEAM_CREATION_FAILED", "WORKSPACE_CREATION_FAILED"} -> 500
    [] OTHER -> 0
ResponseWellFormed(r) ==
  /\ (r.StatusCode = 200) <=> r.Body.success
  /\ r.Body.success => "workspace" \in DOMAIN r.Body
  /\ ~r.Body.success =>
       /\ "workspace" \notin DOMAIN r.Body
       /\ r.StatusCode = StatusOfCode(r.Body.error.code)
       /\ "field" \in DOMAIN r.Body.error =>
            r.Body.error.code = "VALIDATION_ERROR"

\* C8: every response has status 200 exactly when success is true; a failure
\* has 401 for UNAUTHORIZED and AUTHENTICATION_FAILED, 400 for INVALID_INPUT
\* and VALIDATION_ERROR, 500 for TEAM_CREATION_FAILED and
\* WORKSPACE_CREATION_FAILED, carries no workspace, and carries a field only
\* when it is a VALIDATION_ERROR.
C8_StatusFollowsOutcome ==
  \A i \in Invocations :
    /\ Returned(i) => ResponseWellFormed(response[i])
    /\ \A k \in 1..Len(stdout[i]) : ResponseWellFormed(stdout[i][k])

\* C8 witness: a WORKSPACE_CREATION_FAILED response has been written.
C8_Witness ==
  \E i \in Invocations :
    /\ Written(i)
    /\ IsFailure(stdout[i][1], 500, "WORKSPACE_CREATION_FAILED")
    /\ "field" \notin DOMAIN stdout[i][1].Body.error

\* The plan the request asks for, and the plan it is to get.
RequestPlan(i) == Lookup(stdin[i].Body.object, "plan")
ExpectedPlan(i) == IF RequestPlan(i) = "" THEN "free" ELSE RequestPlan(i)

\* C9: for every successful provisioning, the returned workspace and the
\* persisted document have status "active", tenantId equal to teamId, and
\* the plan "free" when the request's plan is empty and the request's plan
\* otherwise.
C9_SuccessFields ==
  \A i \in Invocations :
    (Returned(i) /\ response[i].StatusCode = 200) =>
      LET w == response[i].Body.workspace
      IN  /\ w.status = "active"
          /\ w.tenantId = w.teamId
          /\ w.plan = ExpectedPlan(i)
          /\ \E d \in documents :
               /\ d.Id = w.id
               /\ d.data.status = "active"
               /\ d.data.teamId = w.teamId
               /\ d.data.tenantId = d.data.teamId
               /\ d.data.plan = ExpectedPlan(i)

\* C9 witness: a request with a plan outside free/pro/enterprise has been
\* provisioned with that plan.
C9_Witness ==
  \E i \in Invocations :
    /\ Written(i)
    /\ stdout[i][1].StatusCode = 200
    /\ RequestPlan(i) = "gold"
    /\ stdout[i][1].Body.workspace.plan = "gold"

\* What a slug s made from the input in looks like.
SlugShape(in, s) ==
  /\ \A k \in 1..Len(s) : s[k] \in SlugClass \cup {"-"}
  /\ s # <<>> => (s[1] # "-" /\ s[Len(s)] # "-")
  /\ \A k \in 1..(Len(s) - 1) : ~(s[k] = "-" /\ s[k + 1] = "-")
  /\ SelectSeq(s, LAMBDA c : c # "-")
       = SelectSeq(ToLower(in), LAMBDA c : c \in SlugClass)
  /\ generateSlug(s) = s

\* C10: the slug holds only [a-z0-9-], neither starts nor ends with a
\* hyphen, has no two adjacent hyphens, keeps the lower-cased letters and
\* digits of the input in order, and is left unchanged by generateSlug; the
\* specification's two examples come out as it says.
C10_SlugShape ==
  /\ slugOut.computed => SlugShape(slugIn, slugOut.slug)
  /\ generateSlug(<<"M", "y", SP, SP, "W", "o", "r", "k", "s", "p", "a",
                    "c", "e", "!", "!">>)
       = <<"m", "y", "-", "w", "o", "r", "k", "s", "p", "a", "c", "e">>
  /\ generateSlug(<<SP, SP, "-", "-", "F", "o", "o", "-", "-", SP, SP>>)
       = <<"f", "o", "o">>

\* C10 witness: a run of two characters outside the class, between a letter
\* and an upper-case letter, has become one hyphen.
C10_Witness ==
  /\ slugIn = <<"a", "!", SP, "B">>
  /\ slugOut.computed
  /\ slugOut.slug = <<"a", "-", "b">>

\* The documents an invocation's CreateDocument call stored, and the
\* workspace a response is to show for such a document.
DocumentStored(i) ==
  \E k \in CallsOf(i, "databases.CreateDocument") : calls[i][k].ok
StoredDocuments(i) ==
  {d \in documents :
     \E k \in CallsOf(i, "databases.CreateDocument") :
       calls[i][k].ok /\ calls[i][k].res = d.Id}
WorkspaceOfDocument(d) ==
  [id |-> d.Id, name |-> d.data.name, slug |-> d.data.slug,
   teamId |-> d.data.teamId, ownerId |-> d.data.ownerId,
   createdAt |-> d.data.createdAt, status |-> d.data.status,
   plan |-> d.data.plan, tenantId |-> d.data.tenantId]
WebhookConfigured(i) ==
  /\ Lookup(stdin[i].Env, "WEBHOOK_URL") # ""
  /\ Lookup(stdin[i].Env, "WEBHOOK_API_KEY") # ""

\* C11: once an invocation's document creation has succeeded, the response
\* it returns is the 200 success response whose workspace is the stored
\* document's, whatever the webhook settings are and whether the webhook
\* step returned an error or not.
C11_NonCriticalStepsKeepResult ==
  \A i \in Invocations :
    (DocumentStored(i) /\ Returned(i)) =>
      /\ response[i].StatusCode = 200
      /\ response[i].Body.success
      /\ \E d \in StoredDocuments(i) :
           response[i].Body.workspace = WorkspaceOfDocument(d)

\* C11 witness: with a webhook URL and no webhook key configured, so that
\* the webhook step returned an error, the success response has been written.
C11_Witness ==
  \E i \in Invocations :
    /\ Written(i)
    /\ DocumentStored(i)
    /\ "WEBHOOK_URL" \in DOMAIN stdin[i].Env
    /\ ~WebhookConfigured(i)
    /\ stdout[i][1].StatusCode = 200
    /\ stdout[i][1].Body.workspace.id \in {d.Id : d \in StoredDocuments(i)}

\* C12 (as claimed): an invocation with both webhook settings whose
\* document creation succeeded has, by the time it returns the success
\* response, sent one POST to the webhook URL with the webhook key, carrying
\* the workspace.created event with workspaceName, userEmail and teamId.
C12_WebhookPostedBeforeSuccess ==
  \A i \in Invocations :
    (DocumentStored(i) /\ WebhookConfigured(i) /\ Returned(i)) =>
      /\ Cardinality(CallsOf(i, "http.POST")) = 1
      /\ \A k \in CallsOf(i, "http.POST") :
           /\ calls[i][k].url = Lookup(stdin[i].Env, "WEBHOOK_URL")
           /\ calls[i][k].key = Lookup(stdin[i].Env, "WEBHOOK_API_KEY")
           /\ calls[i][k].event = "workspace.created"
           /\ calls[i][k].data =
                [workspaceName |-> frame[i].workspaceName,
                 userEmail |-> frame[i].sessionInfo.Email,
                 teamId |-> frame[i].team.Id]

\* The invocation's teams.Create call has failed.
TeamCreateFailed(i) ==
  \E k \in CallsOf(i, "teams.Create") : ~calls[i][k].ok
\* What a step leaves behind for an invocation whose teams.Create call has
\* failed in this step or earlier.
C13_TeamFailureStep ==
  \A i \in Invocations :
    TeamCreateFailed(i)' =>
      /\ pc'[i] # pc[i] => UNCHANGED <<teams, documents, nextId>>
      /\ calls'[i][Len(calls'[i])].op = "teams.Create"
      /\ CallsOf(i, "teams.Delete")' = {}
      /\ CallsOf(i, "databases.CreateDocument")' = {}
      /\ CallsOf(i, "http.POST")' = {}
      /\ IsFailure(response'[i], 500, "TEAM_CREATION_FAILED")

\* C13: in the step in which an invocation's teams.Create call fails and in
\* every later step of that invocation, teams and documents stay as they
\* were; the failed call is the invocation's last call (no team delete, no
\* document creation, no webhook request), and the response is
\* TEAM_CREATION_FAILED (500).
C13_TeamFailureChangesNothing == [][C13_TeamFailureStep]_vars

\* C13 witness: an invocation whose teams.Create failed has written its
\* response while another invocation's team and document are on the
\* platform.
C13_Witness ==
  \E i \in Invocations :
    /\ Written(i)
    /\ TeamCreateFailed(i)
    /\ IsFailure(stdout[i][1], 500, "TEAM_CREATION_FAILED")
    /\ teams # {}
    /\ documents # {}

\* C14 (as claimed): every databases.CreateDocument call of an invocation
\* names the database configured under APPWRITE_DATABASE_ID and the
\* collection configured under APPWRITE_WORKSPACES_COLLECTION_ID in the
\* invocation's environment.
C14_DocumentCallTargetsConfiguredIds ==
  \A i \in Invocations :
    \A k \in CallsOf(i, "databases.CreateDocument") :
      /\ calls[i][k].arg[1] = Lookup(stdin[i].Env, "APPWRITE_DATABASE_ID")
      /\ calls[i][k].arg[2] =
           Lookup(stdin[i].Env, "APPWRITE_WORKSPACES_COLLECTION_ID")

\* All invocations ask for the same name, have run to their end against a
\* store that holds the slug unique, and no call of theirs failed but
\* document creations whose slug is taken; every compensating delete
\* succeeded.
SameNameRuns ==
  /\ schema = "documented"
  /\ \A i \in Invocations : Written(i)
  /\ \A i, j \in Invocations : RequestName(i) = RequestName(j)
  /\ \A i \in Invocations : \A k \in 1..Len(calls[i]) :
       \/ calls[i][k].ok
       \/ /\ calls[i][k].op = "databases.CreateDocument"
          /\ \E d \in documents : d.data.slug = calls[i][k].arg[3].slug
Succeeded(i) == stdout[i][1].StatusCode = 200

\* C15: when invocations with the same valid name have all run to their
\* end, interleaved in any way, against a store that rejects a duplicate
\* slug and with nothing else failing: each created one team of its own,
\* exactly one returned success, every other one returned
\* WORKSPACE_CREATION_FAILED and deleted its own team, and exactly one team
\* and one document referencing it remain, those of the successful one.
C15_SameNameOneSurvivor ==
  SameNameRuns =>
    /\ \A i \in Invocations : Cardinality(CreatedTeamIds(i)) = 1
    /\ \A i, j \in Invocations :
         i # j => CreatedTeamIds(i) \cap CreatedTeamIds(j) = {}
    /\ Cardinality({i \in Invocations : Succeeded(i)}) = 1
    /\ \A i \in Invocations :
         ~Succeeded(i) =>
           /\ IsFailure(stdout[i][1], 500, "WORKSPACE_CREATION_FAILED")
           /\ \E k \in CallsOf(i, "teams.Delete") :
                calls[i][k].arg \in CreatedTeamIds(i)
           /\ CreatedTeamIds(i) \cap TeamIds = {}
    /\ Cardinality(teams) = 1
    /\ Cardinality(documents) = 1
    /\ \A d \in documents :
         /\ d.data.teamId \in TeamIds
         /\ \E i \in Invocations :
              Succeeded(i) /\ d.data.teamId \in CreatedTeamIds(i)

\* C15 witness: the invocations ran interleaved (every one had created its
\* team before the first document was stored, so every team id is below the
\* document's), and the last one to start is the one that succeeded.
C15_Witness ==
  /\ SameNameRuns
  /\ Succeeded(NumInvocations)
  /\ \A i \in Invocations : \A t \in CreatedTeamIds(i) :
       \A d \in documents : t[2] < d.Id[2]

\* The external calls in the order of the gates, the compensating delete
\* last.
GateCalls ==
  <<"account.Get", "teams.Create", "databases.CreateDocument", "teams.Delete">>
\* The code of the earliest gate that fails for invocation i, "" when none
\* does: the first four gates read off the request and the answer of the
\* account service, the last two off the answers to the creation calls.
EarliestFailure(i) ==
  IF TriggerValue(i) = "" THEN "UNAUTHORIZED"
  ELSE IF SessionValue(i) = "" \/ AuthRejected(i) THEN "AUTHENTICATION_FAILED"
  ELSE IF stdin[i].Body.kind # "object" THEN "INVALID_INPUT"
  ELSE IF NameValidationMessage(SanitizedName(i)) # <<>> THEN "VALIDATION_ERROR"
  ELSE IF TeamCreateFailed(i) THEN "TEAM_CREATION_FAILED"
  ELSE IF DocumentFailed(i) THEN "WORKSPACE_CREATION_FAILED"
  ELSE ""
\* The gates whose external call may have been made when the gate with
\* this code is the earliest to fail.
CallsUpTo(code) ==
  CASE code = "UNAUTHORIZED" -> 0
    [] code \in {"AUTHENTICATION_FAILED", "INVALID_INPUT", "VALIDATION_ERROR"} -> 1
    [] code = "TEAM_CREATION_FAILED" -> 2
    [] code = "WORKSPACE_CREATION_FAILED" -> 4
    [] OTHER -> 3

\* C16: the calls of an invocation come in the order account lookup, team
\* creation, document creation, each made only after the one before it
\* succeeded, and a team delete only after a failed document creation; a
\* returned response carries the code of the earliest gate that fails (200
\* when none does), and no call of a gate after that one has been made.
C16_EarliestGateWins ==
  \A i \in Invocations :
    stdin[i].decodes =>
      /\ Len(calls[i]) <= Len(GateCalls)
      /\ \A k \in 1..Len(calls[i]) :
           /\ calls[i][k].op = GateCalls[k]
           /\ k > 1 => (calls[i][k - 1].ok <=> k < 4)
      /\ Returned(i) =>
           /\ Len(calls[i]) <= CallsUpTo(EarliestFailure(i))
           /\ IF EarliestFailure(i) = ""
                THEN response[i].StatusCode = 200
                ELSE /\ response[i].StatusCode # 200
                     /\ response[i].Body.error.code = EarliestFailure(i)

\* C16 witness: a request whose session the account service rejected and
\* whose body is malformed has been answered with AUTHENTICATION_FAILED
\* after the one call to the account service.
C16_Witness ==
  \E i \in Invocations :
    /\ Written(i)
    /\ TriggerValue(i) # ""
    /\ AuthRejected(i)
    /\ stdin[i].Body.kind = "malformed"
    /\ Len(calls[i]) = 1
    /\ stdout[i][1].Body.error.code = "AUTHENTICATION_FAILED"

\* The kinds of request an invocation can send out.
ExternalCalls ==
  {"account.Get", "teams.Create", "databases.CreateDocument", "teams.Delete",
   "http.POST"}

\* C17: within one invocation the account lookup, the team creation, the
\* document creation, the team deletion and the webhook request are each
\* issued at most once, whether they succeed or fail.
C17_NoCallRepeated ==
  \A i \in Invocations :
    /\ \A k \in 1..Len(calls[i]) : calls[i][k].op \in ExternalCalls
    /\ \A op \in ExternalCalls : Cardinality(CallsOf(i, op)) <= 1

\* C17 witness: an invocation whose document creation failed and whose
\* team delete failed as well has written its response, having made each
\* of the two calls once.
C17_Witness ==
  \E i \in Invocations :
    /\ Written(i)
    /\ DocumentFailed(i)
    /\ \E k \in CallsOf(i, "teams.Delete") : ~calls[i][k].ok
    /\ Cardinality(CallsOf(i, "databases.CreateDocument")) = 1
    /\ Cardinality(CallsOf(i, "teams.Delete")) = 1

\* The invocation halted after its teams.Create succeeded and before its
\* document creation was carried out.
CrashedBeforeDocument(i) ==
  /\ pc[i] = "crashed"
  /\ CreatedTeamIds(i) # {}
  /\ CallsOf(i, "databases.CreateDocument") = {}

GrantedTeams(d) == {d.permissions[k][3] : k \in 1..Len(d.permissions)}

\* C19: every persisted document carries exactly two permissions, read for
\* the members of team T and write for the owners of team T, where T is the
\* document's teamId and the team created by the invocation that stored the
\* document; no document's permissions name another team.
C19_PermissionsOfOwnTeam ==
  \A d \in documents :
    /\ Len(d.permissions) = 2
    /\ d.permissions[1] = <<"read", "team", d.data.teamId>>
    /\ d.permissions[2] = <<"write", "team", d.data.teamId, "owner">>
    /\ GrantedTeams(d) = {d.data.teamId}
    /\ \E i \in Invocations :
         /\ d \in StoredDocuments(i)
         /\ d.data.teamId \in CreatedTeamIds(i)

\* C19 witness: two invocations created their teams one after the other and
\* then stored their documents in the opposite order; each document names
\* its own team.
C19_Witness ==
  \E d, e \in documents :
    /\ d.Id = <<"doc", 3>> /\ d.data.teamId = <<"team", 2>>
    /\ e.Id = <<"doc", 4>> /\ e.data.teamId = <<"team", 1>>
    /\ GrantedTeams(d) = {<<"team", 2>>}
    /\ GrantedTeams(e) = {<<"team", 1>>}

\* The two codes of a failed creation and the message each is to carry.
CreationFailureCodes == {"TEAM_CREATION_FAILED", "WORKSPACE_CREATION_FAILED"}
GenericMessage(code) ==
  IF code = "TEAM_CREATION_FAILED"
    THEN <<"Failed to create workspace team">>
    ELSE <<"Failed to create workspace document">>
\* The errors the platform gave an invocation's creation calls.
CreationErrors(i) == {calls[i][k].err : k \in CreationCalls(i)} \ {""}

\* C20: a TEAM_CREATION_FAILED or WORKSPACE_CREATION_FAILED response is the
\* status 500 with the code and the fixed message of that code and nothing
\* else, so any two invocations answered with the same one of these codes
\* have identical responses, whatever errors the platform gave them and
\* whatever their environments hold.
C20_CreationFailuresAreGeneric ==
  \A code \in CreationFailureCodes :
    \A i \in Invocations :
      (Returned(i) /\ IsFailure(response[i], 500, code)) =>
        /\ response[i].Body =
             [success |-> FALSE,
              error |-> [code |-> code, message |-> GenericMessage(code)]]
        /\ \A j \in Invocations :
             (Returned(j) /\ IsFailure(response[j], 500, code)) =>
               response[j] = response[i]

\* C20 witness: two invocations given the same request, whose team creation
\* failed with different errors of the platform, have written identical
\* responses.
C20_Witness ==
  \E i, j \in Invocations :
    /\ Written(i) /\ Written(j)
    /\ stdin[i] = stdin[j]
    /\ CreationErrors(i) = {"detail-1"}
    /\ CreationErrors(j) = {"detail-2"}
    /\ IsFailure(stdout[i][1], 500, "TEAM_CREATION_FAILED")
    /\ stdout[i] = stdout[j]

\* C21 (as claimed): two invocations given the same request that fail with
\* the same error code return identical response bodies, whatever error
\* text the account service, the parser or the platform produced for each.
C21_FailuresHideErrorText ==
  \A i, j \in Invocations :
    (/\ Returned(i) /\ Returned(j)
     /\ stdin[i] = stdin[j]
     /\ response[i].StatusCode # 200 /\ response[j].StatusCode # 200
     /\ response[i].Body.error.code = response[j].Body.error.code) =>
      response[i].Body = response[j].Body

\* The control characters and the white space among the characters at hand.
ControlChars == {NUL, SOH, TAB, LF}
\* The parts of the claim about a sanitized string s.
NoNul(s) == \A k \in 1..Len(s) : s[k] # NUL
NoControl(s) == \A k \in 1..Len(s) : s[k] \notin ControlChars
NoOuterSpace(s) ==
  s # <<>> => (s[1] \notin UnicodeSpace /\ s[Len(s)] \notin UnicodeSpace)
WithinLimit(s) == Len(s) <= 1000 /\ ByteLength(s) <= 1000

\* C22 (as claimed): what SanitizeString returns holds no null character
\* and no control character, has no white space at either end, and is at
\* most 1000 long, for every input.
C22_SanitizedIsClean ==
  sanitizeOut.computed =>
    /\ NoNul(sanitizeOut.result)
    /\ NoControl(sanitizeOut.result)
    /\ NoOuterSpace(sanitizeOut.result)
    /\ WithinLimit(sanitizeOut.result)

\* C23 (as claimed): an invocation never has more than one response on its
\* output, and one that has ended has written exactly one, with a status
\* code and a body, whatever its payload was.
C23_OneResponseWritten ==
  \A i \in Invocations :
    /\ Len(stdout[i]) <= 1
    /\ pc[i] = "exit" =>
         /\ Len(stdout[i]) = 1
         /\ DOMAIN stdout[i][1] = {"StatusCode", "Body"}

\* C24 (as claimed): after a successful provisioning, the user recorded as
\* the workspace's ownerId is a member with the owner role of the
\* workspace's team.
C24_OwnerIsOwnerMember ==
  \A i \in Invocations :
    (Returned(i) /\ response[i].StatusCode = 200) =>
      \E t \in teams :
        /\ t.Id = response[i].Body.workspace.teamId
        /\ \E m \in t.Members :
             /\ m.UserId = response[i].Body.workspace.ownerId
             /\ "owner" \in m.Roles

\* C25 (as claimed): the slug of every document an invocation asks the
\* store to create, which is the slug of a name that passed the name
\* checks, is not empty, and so is the slug of every persisted document.
C25_SlugNotEmpty ==
  /\ \A i \in Invocations :
       \A k \in CallsOf(i, "databases.CreateDocument") :
         calls[i][k].arg[3].slug # <<>>
  /\ \A d \in documents : d.data.slug # <<>>

\* The teams of the project that a user is a member of.
TeamsOfUser(userID) ==
  {t.Id : t \in {u \in teams : \E m \in u.Members : m.UserId = userID}}

\* C26 (as claimed): when GetUserTeams(userID) returns without an error, the
\* ids it returns are exactly those of the teams userID is a member of.
C26_OnlyTeamsOfTheUser ==
  (userTeamsOut.computed /\ ~userTeamsOut.result.err.isErr) =>
    userTeamsOut.result.teamIDs = TeamsOfUser(userTeamsIn)

====
